---------------------------- MODULE Spec2Model ----------------------------
(***************************************************************************)
(* pyEisen: Morlet wavelet families (pyeisen/family.py, pyeisen/wavelet.py)*)
(* and the FFT convolution of a wavelet bank with a signal                 *)
(* (pyeisen/wavelet.py).                                                   *)
(*                                                                         *)
(* The library is a set of pure functions.  The state is the last call a   *)
(* client made (fn, args) and what the call produced (ret): a returned     *)
(* value or a raised exception.  Arrays are modelled by their shape and by *)
(* the identity of their entries: a slice of the convolution by the        *)
(* indices of the full convolution it keeps, a wavelet by the arguments    *)
(* of the scipy generator call that made it and by its energy after the    *)
(* normalisation.  Real numbers are exact rationals.                       *)
(***************************************************************************)
EXTENDS Integers, Sequences, FiniteSets

VARIABLES fn, args, ret

vars == <<fn, args, ret>>

(***************************************************************************)
(* Bounds of the model.                                                    *)
(***************************************************************************)
\* centered() is called with sizes in -NegSize .. MaxSize
MaxSize == 17
NegSize == 2
\* samples of a wavelet bank / of a signal: 1 .. MaxSamples
MaxSamples == 6
\* wavelets of a bank handed to fconv_family: 1 .. MaxBank
MaxBank == 2
\* channels of a signal: 1 .. MaxChannels
MaxChannels == 3
\* frequency/cycle pairs of a family: 0 .. MaxWavelets
MaxWavelets == 2
\* elements of freqs and cycles: -1 and 1 .. MaxElem
MaxElem == 3
\* sampling frequencies: -1 .. MaxFs
MaxFs == 2

(***************************************************************************)
(* Outcomes of a call.                                                     *)
(***************************************************************************)
NoArray == [shape |-> <<>>, time |-> <<>>, buf |-> "-"]

\* raise ValueError(msg)
Raised(msg) ==
    [status |-> "raised", error |-> "ValueError", msg |-> msg]

Abs(x) == IF x < 0 THEN 0 - x ELSE x

(***************************************************************************)
(* wavelet.centered                                                        *)
(***************************************************************************)
\* np.arange(startind, endind): empty when endind <= startind
arange(startind, endind) ==
    [i \in 1..(IF endind > startind THEN endind - startind ELSE 0)
        |-> startind + i - 1]

\* a plausible slip: the guard lets new_size = curr_size through and the
\* start index rounds up
centered_ceil(curr_size, new_size) ==
    IF new_size > curr_size
    THEN Raised("New size must be shorter than the current size.")
    ELSE LET startind == (curr_size - new_size + 1) \div 2
             endind == startind + new_size
         IN  [status |-> "returned", ind |-> arange(startind, endind)]

centered(curr_size, new_size) ==
    IF new_size >= curr_size
    THEN Raised("New size must be shorter than the current size.")
    ELSE LET startind == (curr_size - new_size) \div 2
             endind == startind + new_size
         IN  [status |-> "returned", ind |-> arange(startind, endind)]

(***************************************************************************)
(* wavelet.fconv_family                                                    *)
(***************************************************************************)
Modes == {"full", "same", "valid", "bogus"}

\* a plausible slip: the guard is off by one sample
bank_too_long_by_two(n_sample_1, n_sample_2) == n_sample_1 > n_sample_2 + 1

\* if n_sample_1 > n_sample_2: raise
bank_too_long(n_sample_1, n_sample_2) == n_sample_1 > n_sample_2

\* a plausible slip: the length of a circular, not a linear, convolution
full_length_sum(n_sample_1, n_sample_2) == n_sample_1 + n_sample_2

\* n_s = n_sample_1 + n_sample_2 - 1
full_length(n_sample_1, n_sample_2) == n_sample_1 + n_sample_2 - 1

\* arr_conv = np.zeros((n_s, n_wavelets, n_signals)), every [:, :, s_i]
\* filled with the full convolution: entry t of the time axis is sample t
\* of the full convolution
arr_conv(n_s, n_wavelets, n_signals) ==
    [shape |-> <<n_s, n_wavelets, n_signals>>,
     time |-> [t \in 1..n_s |-> t - 1],
     buf |-> "arr_conv"]

\* arr_conv[ind, :, :] with an index array: a copy holding the rows ind
take(arr, ind) ==
    [shape |-> <<Len(ind), arr.shape[2], arr.shape[3]>>,
     time |-> [k \in 1..Len(ind) |-> arr.time[ind[k] + 1]],
     buf |-> "copy"]

\* arr_conv[centered(arr_conv.shape[0], new_size), :, :]
sliced(arr, new_size) ==
    LET c == centered(arr.shape[1], new_size)
    IN  IF c.status = "raised" THEN c
        ELSE [status |-> "returned", value |-> "ndarray", arr |-> take(arr, c.ind)]

fconv_family(n_sample_1, n_wavelets, n_sample_2, n_signals, mode) ==
    IF bank_too_long(n_sample_1, n_sample_2)
    THEN Raised("Wavelet bank cannot have greater length than signal.")
    ELSE LET n_s == full_length(n_sample_1, n_sample_2)
             arr == arr_conv(n_s, n_wavelets, n_signals)
         IN  IF mode = "full"
             THEN [status |-> "returned", value |-> "ndarray", arr |-> arr]
             ELSE IF mode = "same"
             THEN sliced(arr, n_sample_2)
             ELSE IF mode = "valid"
             THEN sliced(arr, Abs(n_sample_2 - n_sample_1) + 1)
             ELSE [status |-> "returned", value |-> "None", arr |-> NoArray]

(***************************************************************************)
(* Exact arithmetic for the real-valued quantities of the synthesis.       *)
(* A rational is [num, den] in lowest terms with den > 0; den = 0 is the   *)
(* IEEE +inf that numpy produces for 1 / 0.0.                              *)
(***************************************************************************)
RECURSIVE GCD(_, _)
GCD(a, b) == IF b = 0 THEN a ELSE GCD(b, a % b)

PosInf == [num |-> 1, den |-> 0]

Rat(n, d) ==
    IF d = 0 THEN PosInf
    ELSE LET g == GCD(Abs(n), Abs(d))
             sg == IF d < 0 THEN 0 - 1 ELSE 1
         IN  [num |-> (sg * n) \div g, den |-> (sg * d) \div g]

RatLeq(a, b) == a.num * b.den <= b.num * a.den

\* 1 / x
Reciprocal(x) == Rat(x.den, x.num)

\* np.ceil(p / q) for integers p and q > 0
CeilDiv(p, q) == 0 - ((0 - p) \div q)

\* np.pi as the convergent 355/113.  No p/q with q < 33000 lies strictly
\* between pi and 355/113, so the ceiling below is the ceiling of the
\* real quotient for every input the model draws.
PiNum == 355
PiDen == 113

(***************************************************************************)
(* family.morlet and wavelet.morlet_family                                 *)
(***************************************************************************)
\* def morlet(freqs, cycles, Fs, n_win=7, complete=True)
n_win_default == 7

\* a plausible slip: the message says "non-negative", the test is Fs < 0
check_inputs_nonneg(freqs, cycles, Fs) ==
    IF Len(freqs) < 1
    THEN "At least one frequency must be specified."
    ELSE IF Len(cycles) # Len(freqs)
    THEN "Each frequency must have an associated number of cycles."
    ELSE IF Fs < 0
    THEN "Sampling frequency must be non-negative."
    ELSE "ok"

\* # Check Inputs: the message of the ValueError raised, or "ok"
check_inputs(freqs, cycles, Fs) ==
    IF Len(freqs) < 1
    THEN "At least one frequency must be specified."
    ELSE IF Len(cycles) # Len(freqs)
    THEN "Each frequency must have an associated number of cycles."
    ELSE IF Fs <= 0
    THEN "Sampling frequency must be non-negative."
    ELSE "ok"

\* np.ceil(st * Fs * n_win) with st = cycles / (2 * np.pi * freqs),
\* for freqs # 0
support(f, c, Fs, n_win) ==
    LET p == c * Fs * n_win * PiDen
        q == 2 * f * PiNum
    IN  IF q < 0 THEN CeilDiv(0 - p, 0 - q) ELSE CeilDiv(p, q)

RECURSIVE MaxOf(_)
MaxOf(S) ==
    LET x == CHOOSE y \in S : TRUE
    IN  IF S = {x} THEN x
        ELSE LET m == MaxOf(S \ {x}) IN IF x > m THEN x ELSE m

\* max_len = np.max(np.ceil(st * Fs * n_win))
max_len(freqs, cycles, Fs, n_win) ==
    MaxOf({support(freqs[i], cycles[i], Fs, n_win) : i \in 1..Len(freqs)})

\* scales = (freqs * max_len) / (2 * cycles * Fs)
scale(f, c, Fs, M) == Rat(f * M, 2 * c * Fs)

\* a plausible slip: the scale is returned as the generator used it
readable_scale_raw(s) == s

\* scales = 1 / scales.  A zero scale arises only from max_len = -0.0
\* (every cycles/freqs ratio negative) and is then +0.0, so 1/scales is +inf.
readable_scale(s) == Reciprocal(s)

\* scipy_morlet(max_len, w=cycles[i], s=scales[i], complete=complete):
\* the wavelet is identified by the generator call that made it
scipy_morlet(M, w, s, complete) ==
    [M |-> M, w |-> w, s |-> s, complete |-> complete]

\* family.py: energies = np.sqrt(np.sum(np.abs(wavelet)**2)), as the
\* square of the normaliser over E = np.sum(np.abs(wavelet)**2)
energies_family(Fs) == Rat(1, 1)

\* wavelet.py: energies = np.sqrt(np.sum(np.abs(wavelet)**2)/Fs), as the
\* square of the normaliser over E = np.sum(np.abs(wavelet)**2)
energies_wavelet(Fs) == Rat(1, Fs)

\* family[i] / energies[i]: the row and the sum of squared magnitudes it
\* has after the division, E / energies^2 (0 for a row of no samples)
normalized(wavelet, e2) ==
    [gen |-> wavelet,
     energy |-> IF wavelet.M = 0 THEN Rat(0, 1) ELSE Reciprocal(e2)]

Perms(n) ==
    {p \in [1..n -> 1..n] : \A i, j \in 1..n : i # j => p[i] # p[j]}

\* np.argsort(scales): the default sort is not stable, so every order
\* that sorts the scales is a possible result
argsort(scales) ==
    {p \in Perms(Len(scales)) :
        \A k \in 1..(Len(scales) - 1) : RatLeq(scales[p[k]], scales[p[k + 1]])}

\* arr[scale_ord]
reorder(arr, scale_ord) == [k \in 1..Len(scale_ord) |-> arr[scale_ord[k]]]

SynthRaised(msg) ==
    [status |-> "raised", error |-> "ValueError", msg |-> msg, generated |-> 0]

\* the body shared by family.morlet and wavelet.morlet_family, which
\* differ in the energies alone (e2): the set of possible outcomes
synthesize(e2, freqs, cycles, Fs, n_win, complete) ==
    LET chk == check_inputs(freqs, cycles, Fs)
    IN  IF chk # "ok" THEN {SynthRaised(chk)}
        ELSE
        LET n == Len(freqs)
            M == max_len(freqs, cycles, Fs, n_win)
            gscales == [i \in 1..n |-> scale(freqs[i], cycles[i], Fs, M)]
            family == [i \in 1..n |->
                          normalized(scipy_morlet(M, cycles[i], gscales[i], complete), e2)]
            scales == [i \in 1..n |-> readable_scale(gscales[i])]
        IN  IF M < 0
            \* np.linspace(-s*2*pi, s*2*pi, M) in scipy's morlet raises
            THEN {SynthRaised("Number of samples must be non-negative.")}
            ELSE {[status |-> "returned",
                   generated |-> n,
                   wavelets |-> reorder(family, scale_ord),
                   scales |-> reorder(scales, scale_ord),
                   freqs |-> reorder(freqs, scale_ord),
                   cycles |-> reorder(cycles, scale_ord)] :
                      scale_ord \in argsort(scales)}

\* family.morlet
morlet(freqs, cycles, Fs, n_win, complete) ==
    synthesize(energies_family(Fs), freqs, cycles, Fs, n_win, complete)

\* wavelet.morlet_family
morlet_family(freqs, cycles, Fs, n_win, complete) ==
    synthesize(energies_wavelet(Fs), freqs, cycles, Fs, n_win, complete)

(***************************************************************************)
(* The client draws a function of the library and its arguments (Init),    *)
(* and the call is one step.                                               *)
(***************************************************************************)
Pending == [status |-> "pending"]

Sizes == (0 - NegSize)..MaxSize

Elems == {0 - 1} \cup 1..MaxElem

Arrays == UNION {[1..n -> Elems] : n \in 0..MaxWavelets}

SynthArgs ==
    [freqs : Arrays, cycles : Arrays, Fs : (0 - 1)..MaxFs,
     n_win : {n_win_default}, complete : BOOLEAN]

Init ==
    /\ ret = Pending
    /\ \/ /\ fn = "centered"
          /\ args \in [curr_size : Sizes, new_size : Sizes]
       \/ /\ fn = "fconv_family"
          /\ args \in [n_sample_1 : 1..MaxSamples, n_wavelets : 1..MaxBank,
                       n_sample_2 : 1..MaxSamples, n_signals : 1..MaxChannels,
                       mode : Modes]
       \/ /\ fn \in {"morlet", "morlet_family"}
          /\ args \in SynthArgs

call_centered ==
    /\ fn = "centered"
    /\ ret = Pending
    /\ ret' = centered(args.curr_size, args.new_size)
    /\ UNCHANGED <<fn, args>>

call_fconv_family ==
    /\ fn = "fconv_family"
    /\ ret = Pending
    /\ ret' = fconv_family(args.n_sample_1, args.n_wavelets,
                           args.n_sample_2, args.n_signals, args.mode)
    /\ UNCHANGED <<fn, args>>

call_morlet ==
    /\ fn = "morlet"
    /\ ret = Pending
    /\ ret' \in morlet(args.freqs, args.cycles, args.Fs, args.n_win, args.complete)
    /\ UNCHANGED <<fn, args>>

call_morlet_family ==
    /\ fn = "morlet_family"
    /\ ret = Pending
    /\ ret' \in morlet_family(args.freqs, args.cycles, args.Fs, args.n_win,
                              args.complete)
    /\ UNCHANGED <<fn, args>>

Next ==
    \/ call_centered
    \/ call_fconv_family
    \/ call_morlet
    \/ call_morlet_family

Spec == Init /\ [][Next]_vars

(***************************************************************************)
(* Properties.                                                             *)
(***************************************************************************)
Done(f) == fn = f /\ ret.status # "pending"

SynthDone == fn \in {"morlet", "morlet_family"} /\ ret.status # "pending"

\* C1: centered(curr_size, new_size) with new_size < curr_size returns the
\* contiguous indices start, start+1, ..., start+new_size-1 with
\* start = (curr_size - new_size) // 2, all of them in [0, curr_size);
\* with new_size >= curr_size it raises and returns no indices.
C1_centered_range ==
    Done("centered") =>
        LET c == args.curr_size
            n == args.new_size
            start == (c - n) \div 2
        IN  IF n < c
            THEN /\ ret.status = "returned"
                 /\ Len(ret.ind) = Cardinality(start..(start + n - 1))
                 /\ \A k \in 1..Len(ret.ind) :
                        /\ ret.ind[k] = start + k - 1
                        /\ 0 <= ret.ind[k]
                        /\ ret.ind[k] < c
            ELSE /\ ret.status = "raised"
                 /\ "ind" \notin DOMAIN ret

\* centered(17, 7) has returned the indices 5 .. 11
C1_witness ==
    /\ Done("centered")
    /\ args.curr_size = 17
    /\ args.new_size = 7
    /\ ret.status = "returned"
    /\ ret.ind = <<5, 6, 7, 8, 9, 10, 11>>

\* C2: fconv_family with mode 'same' and 1 <= n_sample_1 < n_sample_2
\* returns an array of shape (n_sample_2, n_wavelets, n_signals).
C2_same_length ==
    (/\ Done("fconv_family")
     /\ args.mode = "same"
     /\ 1 <= args.n_sample_1
     /\ args.n_sample_1 < args.n_sample_2)
    => /\ ret.status = "returned"
       /\ ret.value = "ndarray"
       /\ ret.arr.shape = <<args.n_sample_2, args.n_wavelets, args.n_signals>>

\* C3: fconv_family with mode 'valid' and 1 <= n_sample_1 <= n_sample_2
\* returns the central |n_sample_2 - n_sample_1| + 1 samples of the full
\* convolution.
C3_valid_length ==
    (/\ Done("fconv_family")
     /\ args.mode = "valid"
     /\ 1 <= args.n_sample_1
     /\ args.n_sample_1 <= args.n_sample_2)
    => LET new == Abs(args.n_sample_2 - args.n_sample_1) + 1
           n_s == args.n_sample_1 + args.n_sample_2 - 1
           start == (n_s - new) \div 2
       IN  /\ ret.status = "returned"
           /\ ret.value = "ndarray"
           /\ ret.arr.shape = <<new, args.n_wavelets, args.n_signals>>
           /\ ret.arr.time = [k \in 1..new |-> start + k - 1]

\* C4: fconv_family with mode 'full' and n_sample_1 <= n_sample_2 returns
\* the array it allocated, of shape
\* (n_sample_1 + n_sample_2 - 1, n_wavelets, n_signals), holding every
\* sample of the full convolution.
C4_full_shape ==
    (/\ Done("fconv_family")
     /\ args.mode = "full"
     /\ args.n_sample_1 <= args.n_sample_2)
    => /\ ret.status = "returned"
       /\ ret.value = "ndarray"
       /\ ret.arr.shape = <<args.n_sample_1 + args.n_sample_2 - 1,
                            args.n_wavelets, args.n_signals>>
       /\ Len(ret.arr.time) = args.n_sample_1 + args.n_sample_2 - 1
       /\ ret.arr.buf = "arr_conv"

\* a 5 x 1 bank and a 6 x 3 signal have given a (10, 1, 3) array
C4_witness ==
    /\ Done("fconv_family")
    /\ args.mode = "full"
    /\ args.n_sample_1 = 5
    /\ args.n_wavelets = 1
    /\ args.n_sample_2 = 6
    /\ args.n_signals = 3
    /\ ret.status = "returned"
    /\ ret.arr.shape = <<10, 1, 3>>

\* C5: fconv_family with a mode other than 'full', 'same', 'valid' raises;
\* it returns nothing.
C5_unknown_mode_raises ==
    (/\ Done("fconv_family")
     /\ args.mode \notin {"full", "same", "valid"})
    => ret.status = "raised"

\* C6: fconv_family with mode 'valid' raises, and returns no array, when
\* the signal has fewer samples than the bank.
C6_valid_short_signal ==
    (/\ Done("fconv_family")
     /\ args.mode = "valid"
     /\ args.n_sample_2 < args.n_sample_1)
    => /\ ret.status = "raised"
       /\ "arr" \notin DOMAIN ret

\* a 3-sample signal under a 4-sample bank, mode 'valid', was rejected
C6_witness ==
    /\ Done("fconv_family")
    /\ args.mode = "valid"
    /\ args.n_sample_1 = 4
    /\ args.n_sample_2 = 3
    /\ ret.status = "raised"
    /\ ret.msg = "Wavelet bank cannot have greater length than signal."

\* C7: morlet and morlet_family raise, before any wavelet is generated and
\* without returning a family, when freqs is empty, when freqs and cycles
\* differ in length, or when Fs <= 0.
C7_rejects_bad_shape ==
    (/\ SynthDone
     /\ \/ Len(args.freqs) = 0
        \/ Len(args.freqs) # Len(args.cycles)
        \/ args.Fs <= 0)
    => /\ ret.status = "raised"
       /\ ret.generated = 0
       /\ "wavelets" \notin DOMAIN ret

\* freqs = [1, 2] with cycles = [3], Fs = 1, was rejected for the mismatch
C7_witness ==
    /\ SynthDone
    /\ args.freqs = <<1, 2>>
    /\ args.cycles = <<3>>
    /\ args.Fs = 1
    /\ ret.status = "raised"
    /\ ret.msg = "Each frequency must have an associated number of cycles."

\* freqs and cycles non-empty and of one length, Fs > 0
ShapeOK ==
    /\ Len(args.freqs) >= 1
    /\ Len(args.cycles) = Len(args.freqs)
    /\ args.Fs > 0

\* ShapeOK, and every element of freqs and cycles strictly positive
ValidInput ==
    /\ ShapeOK
    /\ \A i \in 1..Len(args.freqs) : args.freqs[i] > 0 /\ args.cycles[i] > 0

\* C8: morlet and morlet_family raise, and return no family, whenever an
\* element of freqs or of cycles is not strictly positive, even when the
\* lengths agree and Fs > 0.
C8_rejects_nonpositive ==
    (/\ SynthDone
     /\ ShapeOK
     /\ \E i \in 1..Len(args.freqs) : args.freqs[i] <= 0 \/ args.cycles[i] <= 0)
    => ret.status = "raised"

\* C9: for valid input the returned wavelets, scales, freqs and cycles are
\* one permutation of the inputs: entry k of each comes from one input
\* index p[k], the scale of entry k is 1 / ((freq * L) / (2 * cycles * Fs))
\* of that input, there are as many rows as frequency/cycle pairs, and
\* the scales are non-decreasing.
C9_consistent_sorted ==
    (SynthDone /\ ValidInput) =>
        LET n == Len(args.freqs)
            L == max_len(args.freqs, args.cycles, args.Fs, args.n_win)
            g(i) == Rat(args.freqs[i] * L, 2 * args.cycles[i] * args.Fs)
        IN  /\ ret.status = "returned"
            /\ Len(ret.wavelets) = n
            /\ Len(ret.scales) = n
            /\ Len(ret.freqs) = n
            /\ Len(ret.cycles) = n
            /\ \E p \in Perms(n) :
                   \A k \in 1..n :
                       /\ ret.freqs[k] = args.freqs[p[k]]
                       /\ ret.cycles[k] = args.cycles[p[k]]
                       /\ ret.scales[k].num * g(p[k]).num
                              = ret.scales[k].den * g(p[k]).den
                       /\ ret.scales[k].den > 0
                       /\ ret.wavelets[k].gen.w = args.cycles[p[k]]
                       /\ ret.wavelets[k].gen.s = g(p[k])
                       /\ ret.wavelets[k].gen.M = L
            /\ \A k \in 1..(n - 1) : RatLeq(ret.scales[k], ret.scales[k + 1])

\* freqs = [1, 2] with equal cycles came back reordered, the higher
\* frequency (the smaller scale) first, as one of two rows
C9_witness ==
    /\ SynthDone
    /\ args.freqs = <<1, 2>>
    /\ args.cycles = <<1, 1>>
    /\ args.Fs = 1
    /\ ret.status = "returned"
    /\ ret.freqs = <<2, 1>>
    /\ Len(ret.wavelets) = 2
    /\ ret.scales[1] # ret.scales[2]

\* C10: for valid input, any Fs > 0, every row returned by morlet and by
\* morlet_family has sum of squared magnitudes 1.
C10_unit_energy ==
    (SynthDone /\ ValidInput /\ ret.status = "returned")
    => \A k \in 1..Len(ret.wavelets) : ret.wavelets[k].energy = Rat(1, 1)

=============================================================================
